---- MODULE Spec2Model ----
(***************************************************************************)
(* Model of txsuds/transport/twisted_transport.py: the Twisted transport   *)
(* of the suds SOAP client (StringResponseConsumer, NewAgent, ProxyAgent,  *)
(* TwistedTransport._request / open / send).                               *)
(*                                                                         *)
(* A Python str is a sequence of one-character strings (URLs, header       *)
(* values, credentials, proxy entries, bodies); header names, method names *)
(* and exception names, which the code only passes along, are TLA+ strings.*)
(***************************************************************************)
EXTENDS Integers, Sequences, FiniteSets, TLC

VARIABLES options, calls, sc

vars == <<options, calls, sc>>

\* Python's None and a present value, for fields tested with "is not None".
None == <<>>
Some(x) == <<x>>
IsNone(x) == x = <<>>
Value(x) == x[1]

(***************************************************************************)
(* Bounds of the model.                                                    *)
(***************************************************************************)
\* Number of open/send calls that may be in flight on one transport.
NCalls == 2
\* Total number of dataReceived events delivered over all calls.
MaxChunks == 2
\* Number of events driven into the stand-alone response consumer.
MaxEvents == 4

Calls == 1..NCalls

(***************************************************************************)
(* Sequence helpers.                                                       *)
(***************************************************************************)
RECURSIVE Flatten(_)
Flatten(ss) == IF ss = <<>> THEN <<>> ELSE Head(ss) \o Flatten(Tail(ss))

RECURSIVE Repeat(_, _)
Repeat(x, n) == IF n = 0 THEN <<>> ELSE <<x>> \o Repeat(x, n - 1)

(***************************************************************************)
(* Python 2 "base64" codec followed by str.strip, as used at line 259:     *)
(*   auth.encode("base64").strip()                                         *)
(* The codec is base64.encodestring: the input is cut into pieces of       *)
(* MAXBINSIZE bytes, each piece is encoded by binascii.b2a_base64, which   *)
(* ends its output with a newline.                                         *)
(***************************************************************************)
\* ord(c) for the characters credentials are made of here: ASCII letters,
\* digits and the colon.
Digits == << "0", "1", "2", "3", "4", "5", "6", "7", "8", "9" >>
UpperCase ==
    << "A", "B", "C", "D", "E", "F", "G", "H", "I", "J", "K", "L", "M", "N",
       "O", "P", "Q", "R", "S", "T", "U", "V", "W", "X", "Y", "Z" >>
LowerCase ==
    << "a", "b", "c", "d", "e", "f", "g", "h", "i", "j", "k", "l", "m", "n",
       "o", "p", "q", "r", "s", "t", "u", "v", "w", "x", "y", "z" >>

IndexIn(seq, c) == CHOOSE i \in 1..Len(seq) : seq[i] = c
Occurs(seq, c) == \E i \in 1..Len(seq) : seq[i] = c

Ord(c) ==
    IF Occurs(Digits, c) THEN 47 + IndexIn(Digits, c)
    ELSE IF Occurs(UpperCase, c) THEN 64 + IndexIn(UpperCase, c)
    ELSE IF Occurs(LowerCase, c) THEN 96 + IndexIn(LowerCase, c)
    ELSE 58

\* The base64 alphabet of RFC 4648, indexed 1..64.
B64Alphabet == UpperCase \o LowerCase \o Digits \o << "+", "/" >>

B64Char(i) == B64Alphabet[i + 1]

Pad == "="
Newline == "\n"
Whitespace == {" ", "\t", "\n", "\r"}

\* binascii.b2a_base64 without its trailing newline: RFC 4648 base64 of a
\* sequence of byte values.
RECURSIVE B64Raw(_)
B64Raw(bs) ==
    IF Len(bs) = 0 THEN <<>>
    ELSE IF Len(bs) = 1 THEN
        << B64Char(bs[1] \div 4), B64Char((bs[1] % 4) * 16), Pad, Pad >>
    ELSE IF Len(bs) = 2 THEN
        << B64Char(bs[1] \div 4),
           B64Char((bs[1] % 4) * 16 + bs[2] \div 16),
           B64Char((bs[2] % 16) * 4), Pad >>
    ELSE
        << B64Char(bs[1] \div 4),
           B64Char((bs[1] % 4) * 16 + bs[2] \div 16),
           B64Char((bs[2] % 16) * 4 + bs[3] \div 64),
           B64Char(bs[3] % 64) >> \o B64Raw(SubSeq(bs, 4, Len(bs)))

\* The byte values of a str.
Bytes(s) == [i \in 1..Len(s) |-> Ord(s[i])]

\* base64.MAXBINSIZE: bytes of input per output line of 76 characters.
MAXBINSIZE == 57

\* base64.encodestring, which str.encode("base64") calls.
RECURSIVE encode_base64(_)
encode_base64(bs) ==
    IF Len(bs) = 0 THEN <<>>
    ELSE IF Len(bs) <= MAXBINSIZE THEN B64Raw(Bytes(bs)) \o <<Newline>>
    ELSE B64Raw(Bytes(SubSeq(bs, 1, MAXBINSIZE))) \o <<Newline>>
         \o encode_base64(SubSeq(bs, MAXBINSIZE + 1, Len(bs)))

\* str.strip(): whitespace removed at both ends only.
RECURSIVE lstrip(_)
lstrip(s) ==
    IF s # <<>> /\ Head(s) \in Whitespace THEN lstrip(Tail(s)) ELSE s

RECURSIVE rstrip(_)
rstrip(s) ==
    IF s # <<>> /\ s[Len(s)] \in Whitespace
    THEN rstrip(SubSeq(s, 1, Len(s) - 1)) ELSE s

strip(s) == rstrip(lstrip(s))

(***************************************************************************)
(* str helpers used by _request and open: startswith, split, int, and the  *)
(* parts urlparse.urlparse / twisted.web.client._parse take from a URL.    *)
(***************************************************************************)
startswith(s, prefix) ==
    Len(s) >= Len(prefix) /\ SubSeq(s, 1, Len(prefix)) = prefix

\* Index of the first occurrence of one of the characters cs in s at or after
\* position from; Len(s) + 1 when there is none.
RECURSIVE FindFirst(_, _, _)
FindFirst(s, cs, from) ==
    IF from > Len(s) THEN Len(s) + 1
    ELSE IF s[from] \in cs THEN from
    ELSE FindFirst(s, cs, from + 1)

\* str.split(sep) for a separator of one character.
RECURSIVE split(_, _)
split(s, sep) ==
    LET i == FindFirst(s, {sep}, 1)
    IN  IF i > Len(s) THEN << s >>
        ELSE << SubSeq(s, 1, i - 1) >> \o split(SubSeq(s, i + 1, Len(s)), sep)

\* int(s) for a str of decimal digits.
RECURSIVE int(_)
int(s) ==
    IF s = <<>> THEN 0
    ELSE 10 * int(SubSeq(s, 1, Len(s) - 1)) + (IndexIn(Digits, s[Len(s)]) - 1)

SchemeSep == << ":", "/", "/" >>

\* urlparse.urlparse(url): scheme, netloc and path of "scheme://netloc/path".
urlparse(url) ==
    LET colon  == FindFirst(url, {":"}, 1)
        scheme == SubSeq(url, 1, colon - 1)
        rest   == SubSeq(url, colon, Len(url))
        slash  == IF startswith(rest, SchemeSep)
                  THEN FindFirst(url, {"/", "?", "#"}, colon + 3)
                  ELSE colon + 1
    IN  [ scheme |-> scheme,
          netloc |-> IF startswith(rest, SchemeSep)
                     THEN SubSeq(url, colon + 3, slash - 1) ELSE <<>>,
          path   |-> SubSeq(url, slash, Len(url)) ]

HTTP  == << "h", "t", "t", "p" >>
HTTPS == << "h", "t", "t", "p", "s" >>
FILE  == << "f", "i", "l", "e" >>

\* twisted.web.client._parse(uri): (scheme, host, port, path); the port is the
\* scheme's default (the URLs used here carry none), an empty path is "/".
_parse(uri) ==
    LET u == urlparse(uri)
    IN  [ scheme |-> u.scheme,
          host   |-> u.netloc,
          port   |-> IF u.scheme = HTTPS THEN 443 ELSE 80,
          path   |-> IF u.path = <<>> THEN << "/" >> ELSE u.path ]

(***************************************************************************)
(* twisted.web.http_headers.Headers: a map from the lower-cased header     *)
(* name to the list of its raw values.                                     *)
(***************************************************************************)
lower(name) ==
    CASE name = "Content-Type"  -> "content-type"
      [] name = "SOAPAction"    -> "soapaction"
      [] name = "Authorization" -> "authorization"
      [] name = "Set-Cookie"    -> "set-cookie"
      [] name = "Host"          -> "host"
      [] OTHER                  -> name

\* Headers._canonicalNameCaps: the name getAllRawHeaders reports.
canonicalName(name) ==
    CASE name = "content-type"  -> "Content-Type"
      [] name = "soapaction"    -> "Soapaction"
      [] name = "authorization" -> "Authorization"
      [] name = "set-cookie"    -> "Set-Cookie"
      [] name = "host"          -> "Host"
      [] OTHER                  -> name

Headers == <<>>

hasHeader(headers, name) == lower(name) \in DOMAIN headers

addRawHeader(headers, name, value) ==
    IF hasHeader(headers, name)
    THEN [headers EXCEPT ![lower(name)] = Append(@, value)]
    ELSE [k \in DOMAIN headers \cup {lower(name)} |->
            IF k = lower(name) THEN << value >> ELSE headers[k]]

getAllRawHeaders(headers) ==
    { << canonicalName(k), headers[k] >> : k \in DOMAIN headers }

\* dict(pairs)
dict(pairs) ==
    [k \in {p[1] : p \in pairs} |-> (CHOOSE p \in pairs : p[1] = k)[2]]

(***************************************************************************)
(* twisted.internet.defer.Deferred, as far as the code uses it: callback   *)
(* runs the callbacks once; a second callback raises AlreadyCalledError.   *)
(* fires counts the times the callbacks were run.                          *)
(***************************************************************************)
Deferred == [called |-> FALSE, result |-> None, fires |-> 0]

\* Deferred_callback without the check of called: every call runs the callbacks.
Deferred_callback_unchecked(d, result) ==
    [d   |-> [called |-> TRUE, result |-> Some(result), fires |-> d.fires + 1],
     exc |-> "none"]

Deferred_callback(d, result) ==
    IF d.called
    THEN [d |-> d, exc |-> "AlreadyCalledError"]
    ELSE [d   |-> [called |-> TRUE, result |-> Some(result), fires |-> d.fires + 1],
          exc |-> "none"]

(***************************************************************************)
(* class StringResponseConsumer.  id stands for the object's identity      *)
(* (what "self" is).  Each method returns the consumer after the call and  *)
(* the exception the call raised, if any.                                  *)
(***************************************************************************)
StringResponseConsumer(id) ==
    [id |-> id, finished |-> Deferred, response |-> None, body |-> <<>>]

getDeferred(c) == c.finished

\* dataReceived with the operands of the concatenation swapped.
dataReceived_prepend(c, data) ==
    [c |-> [c EXCEPT !.body = data \o c.body], exc |-> "none"]

dataReceived(c, data) ==
    [c |-> [c EXCEPT !.body = c.body \o data], exc |-> "none"]

connectionLost(c, reason) ==
    LET r == Deferred_callback(c.finished, c.id)
    IN  [c |-> [c EXCEPT !.finished = r.d], exc |-> r.exc]

responseWithoutBody(c) ==
    LET r == Deferred_callback(c.finished, c.id)
    IN  [c |-> [c EXCEPT !.finished = r.d], exc |-> r.exc]

(***************************************************************************)
(* The agents.  request returns the HTTP request as it is put on the wire: *)
(* the agent used, the peer the connection is opened to, the method, the   *)
(* request target, the headers and the body.                               *)
(***************************************************************************)
\* Agent._computeHostValue for a default port.
_computeHostValue(scheme, host, port) == host

\* Headers given to Request: a host header is added when there is none.
WithHost(headers, u) ==
    IF ~hasHeader(headers, "host")
    THEN addRawHeader(headers, "host", _computeHostValue(u.scheme, u.host, u.port))
    ELSE headers

\* NewAgent._connect: the peer is the host and port of the URL.
NewAgent_connect(scheme, host, port) == [host |-> host, port |-> port]

\* NewAgent.request (Agent.request): the request target is the path.
NewAgent_request(method, uri, headers, body) ==
    LET u == _parse(uri)
    IN  [ agent   |-> "NewAgent",
          peer    |-> NewAgent_connect(u.scheme, u.host, u.port),
          method  |-> method,
          target  |-> u.path,
          headers |-> WithHost(headers, u),
          body    |-> body ]

\* ProxyAgent._connect as Agent._connect: the peer is the URL's host.
ProxyAgent_connect_direct(endpoint, scheme, host, port) ==
    [host |-> host, port |-> port]

\* ProxyAgent._connect: the peer is the proxy endpoint, whatever the URL.
ProxyAgent_connect(endpoint, scheme, host, port) == endpoint

\* ProxyAgent.request: the request target is the full URI.
ProxyAgent_request(endpoint, method, uri, headers, body) ==
    LET u == _parse(uri)
        request_path == uri
    IN  [ agent   |-> "ProxyAgent",
          peer    |-> ProxyAgent_connect(endpoint, u.scheme, u.host, u.port),
          method  |-> method,
          target  |-> request_path,
          headers |-> WithHost(headers, u),
          body    |-> body ]

(***************************************************************************)
(* The inputs: the transport's options and the transport requests.         *)
(***************************************************************************)
User     == << "u" >>
LongUser == Repeat("a", 56)
Password == << "p", "w" >>

\* (username, password) pairs of the options.
Credentials ==
    { << None, None >>, << Some(User), None >>, << None, Some(Password) >>,
      << Some(User), Some(Password) >>, << Some(LongUser), Some(Password) >> }

\* options.proxy: a dict from scheme to "host:port".
ProxyEntry  == << "p", "x", ":", "8", "1" >>
ProxyEntryS == << "q", ":", "9" >>
Proxies ==
    { <<>>, [k \in {HTTP} |-> ProxyEntry], [k \in {HTTPS} |-> ProxyEntryS] }

Options ==
    { [username |-> c[1], password |-> c[2], proxy |-> p] :
        c \in Credentials, p \in Proxies }

\* dict.get(key, None)
get(d, key) == IF key \in DOMAIN d THEN Some(d[key]) ELSE None

UrlA == HTTP  \o SchemeSep \o << "a", "/", "s" >>
UrlB == HTTPS \o SchemeSep \o << "b", "/", "w" >>
UrlF == FILE  \o SchemeSep \o << "/", "f" >>

Request(url, headers, message) ==
    [url |-> url, headers |-> headers, message |-> message]

RequestA ==
    Request(UrlA, [k \in {"Content-Type"} |-> << "x" >>], << "m" >>)
RequestB ==
    Request(UrlB,
            [k \in {"SOAPAction", "Authorization"} |->
                IF k = "SOAPAction" THEN << "o" >> ELSE << "t" >>],
            <<>>)
RequestF == Request(UrlF, <<>>, <<>>)

\* Requests given to send, and to open (which also reads file:// URLs).
SendRequests == { RequestA, RequestB }
OpenRequests == { RequestA, RequestB, RequestF }

\* What the agent's request Deferred fails with.
Failures == { "ConnectionRefusedError", "TimeoutError" }

\* Responses of the server: status code and headers.
Responses ==
    { [code |-> 200, headers |-> [k \in {"content-type"} |-> << << "x" >> >>]],
      [code |-> 500,
       headers |-> [k \in {"content-type", "set-cookie"} |->
                      IF k = "content-type" THEN << << "x" >> >>
                      ELSE << << "c" >>, << "d" >> >>]] }

\* Body chunks handed to dataReceived.
Chunks == { << "a" >>, << "b", "c" >> }

\* Reasons given to connectionLost: the response is complete, or it is not.
Reasons == { "ResponseDone", "ResponseFailed" }

FileContent == << "w", "s", "d", "l" >>

(***************************************************************************)
(* class TwistedTransport.  A call of open or send is a record: the        *)
(* position of its generator (pc), the HTTP requests it issued, the        *)
(* response and consumer it holds, and the state of the Deferred it        *)
(* returned to the caller (result).  outcome, received and reason record   *)
(* what the network did for the call.                                      *)
(***************************************************************************)
Pending == [state |-> "pending", value |-> None, failure |-> "none"]
Succeeded(value) == [state |-> "ok", value |-> Some(value), failure |-> "none"]
Failed(failure) == [state |-> "fail", value |-> None, failure |-> failure]

NoCall ==
    [ op |-> "none", pc |-> "idle", request |-> None, issued |-> <<>>,
      outcome |-> "pending", response |-> None, consumer |-> None,
      received |-> <<>>, reason |-> None, result |-> Pending ]

\* suds.transport.Reply(code, headers, message)
Reply(code, headers, message) ==
    [code |-> code, headers |-> headers, message |-> message]

\* _request, lines 250-253: the request's headers copied into a Headers.
RECURSIVE CopyHeaders(_, _, _)
CopyHeaders(headers, items, keys) ==
    IF keys = {} THEN headers
    ELSE LET key == CHOOSE k \in keys : TRUE
         IN  CopyHeaders(addRawHeader(headers, key, items[key]), items,
                         keys \ {key})

Basic == << "B", "a", "s", "i", "c", " " >>

\* _request, lines 255-260: basic authentication.
AddAuth(headers, opts) ==
    IF ~IsNone(opts.username) /\ ~IsNone(opts.password)
    THEN LET auth == Value(opts.username) \o << ":" >> \o Value(opts.password)
         IN  addRawHeader(headers, "Authorization",
                          Basic \o strip(encode_base64(auth)))
    ELSE headers

\* _request, lines 250-260.
BuildHeaders(opts, request) ==
    AddAuth(CopyHeaders(Headers, request.headers, DOMAIN request.headers), opts)

\* _request, lines 262-278: the agent is chosen and the request is issued.
IssueRequest(opts, request, method, headers) ==
    LET url_parts == urlparse(request.url)
        proxy     == get(opts.proxy, url_parts.scheme)
        url       == request.url
        producer  == request.message
    IN  IF ~IsNone(proxy)
        THEN LET parts    == split(Value(proxy), ":")
                 endpoint == [host |-> parts[1], port |-> int(parts[2])]
             IN  ProxyAgent_request(endpoint, method, url, headers, producer)
        ELSE NewAgent_request(method, url, headers, producer)

\* _request up to its first yield (line 278): the call waits for the agent's
\* request Deferred.
_request(call, request, method) ==
    [call EXCEPT
        !.request = Some(request),
        !.issued  = Append(@, IssueRequest(options, request, method,
                                           BuildHeaders(options, request))),
        !.pc      = "requesting"]

\* open, line 310.
open_result(consumer) == consumer.body

\* send, lines 329-331.
send_result(consumer) ==
    Reply(Value(consumer.response).code,
          dict(getAllRawHeaders(Value(consumer.response).headers)),
          consumer.body)

\* The generators resumed by the consumer's Deferred: _request, lines
\* 284-285, then the rest of open or send.
Resume(call) ==
    LET consumer == [Value(call.consumer) EXCEPT !.response = call.response]
    IN  [call EXCEPT
            !.consumer = Some(consumer),
            !.pc       = "done",
            !.result   = Succeeded(IF call.op = "open"
                                   THEN open_result(consumer)
                                   ELSE send_result(consumer))]

\* request_errback that issues the request again instead of failing.
request_errback_retry(call, failure) ==
    [call EXCEPT !.issued = Append(@, @[1])]

\* request_errback that swallows the failure and returns an empty consumer.
request_errback_swallow(call, failure) ==
    Resume([call EXCEPT !.outcome = failure,
                        !.response = Some([code |-> 0, headers |-> <<>>]),
                        !.consumer = Some(StringResponseConsumer(0))])

\* The agent's request Deferred fails: the failure is thrown into _request at
\* line 278 and, uncaught, fails the Deferred of open or send.
request_errback(call, failure) ==
    [call EXCEPT !.outcome = failure, !.pc = "done", !.result = Failed(failure)]

\* request_callback that does not wait for the consumer's Deferred.
request_callback_nowait(call, id, response) ==
    Resume([call EXCEPT
               !.outcome  = "ok",
               !.response = Some(response),
               !.consumer = Some(StringResponseConsumer(id))])

\* The agent's request Deferred fires with the response: _request, lines
\* 280-283; the call waits for the consumer's Deferred.
request_callback(call, id, response) ==
    [call EXCEPT
        !.outcome  = "ok",
        !.response = Some(response),
        !.consumer = Some(StringResponseConsumer(id)),
        !.pc       = "delivering"]

\* A method of the call's consumer has returned: when it fired the consumer's
\* Deferred the generators run on.
AfterEvent(call, before, r) ==
    LET c == [call EXCEPT !.consumer = Some(r.c)]
    IN  IF r.c.finished.fires > before.finished.fires THEN Resume(c) ELSE c

TotalReceived ==
    LET RECURSIVE Sum(_)
        Sum(S) == IF S = {} THEN 0
                  ELSE LET i == CHOOSE x \in S : TRUE
                       IN  Len(calls[i].received) + Sum(S \ {i})
    IN  Sum(Calls)

(***************************************************************************)
(* The actions.                                                            *)
(***************************************************************************)
\* TwistedTransport.open(request); file is whether the local file is there.
open(i, request, file) ==
    /\ calls[i].op = "none"
    /\ calls' =
         [calls EXCEPT ![i] =
            IF startswith(request.url, FILE \o SchemeSep)
            THEN [@ EXCEPT !.op = "open", !.request = Some(request),
                           !.pc = "done",
                           !.result = IF file THEN Succeeded(FileContent)
                                      ELSE Failed("IOError")]
            ELSE _request([@ EXCEPT !.op = "open"], request, "GET")]
    /\ UNCHANGED <<options, sc>>

\* TwistedTransport.send(request)
send(i, request) ==
    /\ calls[i].op = "none"
    /\ calls' = [calls EXCEPT ![i] =
                    _request([@ EXCEPT !.op = "send"], request, "POST")]
    /\ UNCHANGED <<options, sc>>

\* The connection or the exchange of the request fails.
RequestFails(i, failure) ==
    /\ calls[i].pc = "requesting"
    /\ calls' = [calls EXCEPT ![i] = request_errback(@, failure)]
    /\ UNCHANGED <<options, sc>>

\* The response's status line and headers have arrived.
RequestSucceeds(i, response) ==
    /\ calls[i].pc = "requesting"
    /\ calls' = [calls EXCEPT ![i] = request_callback(@, i, response)]
    /\ UNCHANGED <<options, sc>>

\* DataReceived with one consumer shared by the calls in flight: the chunk
\* reaches the body of every call that is delivering.
DataReceived_shared(i, data) ==
    /\ calls[i].pc = "delivering"
    /\ TotalReceived < MaxChunks
    /\ calls' = [j \in Calls |->
                   IF calls[j].pc = "delivering"
                   THEN LET before == Value(calls[j].consumer)
                            call   == IF j = i
                                      THEN [calls[j] EXCEPT
                                              !.received = Append(@, data)]
                                      ELSE calls[j]
                        IN  AfterEvent(call, before, dataReceived(before, data))
                   ELSE calls[j]]
    /\ UNCHANGED <<options, sc>>

\* The response of call i delivers a chunk of its body to its consumer.
DataReceived(i, data) ==
    /\ calls[i].pc = "delivering"
    /\ TotalReceived < MaxChunks
    /\ LET before == Value(calls[i].consumer)
       IN  calls' = [calls EXCEPT ![i] =
                        AfterEvent([@ EXCEPT !.received = Append(@, data)],
                                   before, dataReceived(before, data))]
    /\ UNCHANGED <<options, sc>>

\* The response of call i ends: its consumer's connectionLost is called.
ConnectionLost(i, reason) ==
    /\ calls[i].pc = "delivering"
    /\ LET before == Value(calls[i].consumer)
       IN  calls' = [calls EXCEPT ![i] =
                        AfterEvent([@ EXCEPT !.reason = Some(reason)],
                                   before, connectionLost(before, reason))]
    /\ UNCHANGED <<options, sc>>

NoConsumer == [c |-> StringResponseConsumer(0), events |-> <<>>, exc |-> "none"]

(***************************************************************************)
(* Spec: NCalls calls in flight on one transport, their events interleaved *)
(* in every order, with direct and with proxied, authenticated options.    *)
(***************************************************************************)
DirectOptions == [username |-> None, password |-> None, proxy |-> <<>>]
ProxiedOptions ==
    [username |-> Some(User), password |-> Some(Password),
     proxy |-> [k \in {HTTP} |-> ProxyEntry]]

Init ==
    /\ options \in {DirectOptions, ProxiedOptions}
    /\ calls = [i \in Calls |-> NoCall]
    /\ sc = NoConsumer

Next ==
    \/ \E i \in Calls, request \in {RequestA, RequestF}, file \in BOOLEAN :
          open(i, request, file)
    \/ \E i \in Calls, request \in {RequestB} : send(i, request)
    \/ \E i \in Calls, failure \in Failures : RequestFails(i, failure)
    \/ \E i \in Calls, response \in Responses : RequestSucceeds(i, response)
    \/ \E i \in Calls, data \in Chunks : DataReceived(i, data)
    \/ \E i \in Calls, reason \in Reasons : ConnectionLost(i, reason)

Spec == Init /\ [][Next]_vars

(***************************************************************************)
(* RequestSpec: one call under every combination of the options, for the   *)
(* properties of the request that _request builds.                         *)
(***************************************************************************)
RequestInit ==
    /\ options \in Options
    /\ calls = [i \in Calls |-> NoCall]
    /\ sc = NoConsumer

RequestNext ==
    \/ \E request \in OpenRequests, file \in BOOLEAN : open(1, request, file)
    \/ \E request \in SendRequests : send(1, request)
    \/ \E failure \in Failures : RequestFails(1, failure)
    \/ \E response \in Responses : RequestSucceeds(1, response)
    \/ \E data \in Chunks : DataReceived(1, data)
    \/ \E reason \in Reasons : ConnectionLost(1, reason)

RequestSpec == RequestInit /\ [][RequestNext]_vars

(***************************************************************************)
(* A StringResponseConsumer on its own, its methods called in any order.   *)
(* events is the sequence of the calls made, exc what the last one raised. *)
(***************************************************************************)
Event(name, arg) == [name |-> name, arg |-> arg]

Drive(name, arg, r) ==
    /\ Len(sc.events) < MaxEvents
    /\ sc' = [c |-> r.c, events |-> Append(sc.events, Event(name, arg)),
              exc |-> r.exc]
    /\ UNCHANGED <<options, calls>>

CallDataReceived(data) ==
    Drive("dataReceived", data, dataReceived(sc.c, data))

CallConnectionLost(reason) ==
    Drive("connectionLost", << reason >>, connectionLost(sc.c, reason))

CallResponseWithoutBody ==
    Drive("responseWithoutBody", <<>>, responseWithoutBody(sc.c))

ConsumerInit ==
    /\ options = DirectOptions
    /\ calls = [i \in Calls |-> NoCall]
    /\ sc = NoConsumer

ConsumerNext ==
    \/ \E data \in Chunks \cup {<<>>} : CallDataReceived(data)
    \/ \E reason \in Reasons : CallConnectionLost(reason)
    \/ CallResponseWithoutBody

ConsumerSpec == ConsumerInit /\ [][ConsumerNext]_vars

(***************************************************************************)
(* Properties.                                                             *)
(***************************************************************************)
IsFileUrl(call) == startswith(Value(call.request).url, FILE \o SchemeSep)

\* The call is an open or a send that goes to the network.
Networked(call) == call.op = "send" \/ (call.op = "open" /\ ~IsFileUrl(call))

\* The body handed back by the call: the result of open, the message of the
\* Reply of send.
ResultBody(call) ==
    IF call.op = "open" THEN Value(call.result.value)
    ELSE Value(call.result.value).message

\* C1: every send issues exactly one HTTP request, a POST; every open of a
\* URL that is not file:// issues exactly one, a GET; no call ever issues a
\* second request, also after the first one failed.
C1_OneRequestPerCall ==
    \A i \in Calls :
        LET call == calls[i]
        IN  /\ Len(call.issued) <= 1
            /\ call.op = "send" =>
                  /\ Len(call.issued) = 1
                  /\ call.issued[1].method = "POST"
            /\ (call.op = "open" /\ ~IsFileUrl(call)) =>
                  /\ Len(call.issued) = 1
                  /\ call.issued[1].method = "GET"
            /\ (call.op = "open" /\ IsFileUrl(call)) => Len(call.issued) = 0

\* A send whose request failed and an open, both with their one request.
C1_Witness ==
    \E i, j \in Calls :
        /\ calls[i].op = "send" /\ calls[i].result.state = "fail"
        /\ Len(calls[i].issued) = 1
        /\ calls[j].op = "open" /\ calls[j].pc = "done"
        /\ Len(calls[j].issued) = 1

\* C2: when the request of send succeeds and the body delivery completes,
\* send fires with a Reply of the response's status code, the response's raw
\* headers and the whole body the consumer accumulated; send never fires with
\* a Reply before the consumer's completion Deferred has fired.
C2_SendReply ==
    \A i \in Calls :
        LET call == calls[i]
        IN  call.op = "send" =>
              /\ call.result.state = "ok" =>
                    LET reply    == Value(call.result.value)
                        response == Value(call.response)
                    IN  /\ ~IsNone(call.consumer)
                        /\ getDeferred(Value(call.consumer)).called
                        /\ reply.code = response.code
                        /\ DOMAIN reply.headers =
                              {canonicalName(k) : k \in DOMAIN response.headers}
                        /\ \A k \in DOMAIN response.headers :
                              reply.headers[canonicalName(k)] = response.headers[k]
                        /\ reply.message = Flatten(call.received)
              /\ (call.outcome = "ok" /\ ~IsNone(call.reason)) =>
                    call.result.state = "ok"

\* A send that returned the Reply of a 500 response of two chunks.
C2_Witness ==
    \E i \in Calls :
        /\ calls[i].op = "send" /\ calls[i].result.state = "ok"
        /\ Value(calls[i].result.value).code = 500
        /\ Len(calls[i].received) = 2
        /\ Value(calls[i].result.value).message = << "a", "b", "c" >>

\* Events of the given names in the stand-alone consumer's history.
Happened(names) == \E k \in 1..Len(sc.events) : sc.events[k].name \in names

\* The data of the dataReceived events, in the order of their arrival.
RECURSIVE Arrived(_)
Arrived(events) ==
    IF events = <<>> THEN <<>>
    ELSE IF Head(events).name = "dataReceived"
         THEN << Head(events).arg >> \o Arrived(Tail(events))
         ELSE Arrived(Tail(events))

\* C3: after dataReceived(d1), ..., dataReceived(dn) the body is d1 + ... +
\* dn in arrival order (empty when n = 0); the completion Deferred has not
\* fired until connectionLost or responseWithoutBody is called; when it
\* fires, its result is the consumer itself.
C3_ConsumerAccumulates ==
    /\ sc.c.body = Flatten(Arrived(sc.events))
    /\ getDeferred(sc.c).called =>
          Happened({"connectionLost", "responseWithoutBody"})
    /\ getDeferred(sc.c).called => getDeferred(sc.c).result = Some(sc.c.id)

\* Two different chunks arrived, then the connection was lost.
C3_Witness ==
    /\ Len(sc.events) = 3
    /\ sc.events[1] = Event("dataReceived", << "b", "c" >>)
    /\ sc.events[2] = Event("dataReceived", << "a" >>)
    /\ sc.events[3].name = "connectionLost"
    /\ getDeferred(sc.c).called
    /\ sc.c.body = << "b", "c", "a" >>

C5_FailuresAreTransportErrors ==
    \A i \in Calls :
        (Networked(calls[i]) /\ calls[i].result.state = "fail") =>
            calls[i].result.failure = "TransportError"

\* C6: when the connection is lost before the body is complete
\* (connectionLost with a reason other than the clean end of the response),
\* the Deferred of open or send fails and the partial body is not handed back
\* as a result or Reply.
C6_BodyFailurePropagates ==
    \A i \in Calls :
        (~IsNone(calls[i].reason) /\ Value(calls[i].reason) # "ResponseDone") =>
            /\ calls[i].result.state = "fail"
            /\ IsNone(calls[i].result.value)

\* RFC 4648 base64 of a str: no line breaks.
base64(s) == B64Raw(Bytes(s))

\* The values of a header in a dict of request headers.
Given(headers, name) ==
    IF name \in DOMAIN headers THEN << headers[name] >> ELSE <<>>

\* C7 without the form of the credentials: the outbound request carries every
\* header of the transport request unchanged, and one more Authorization
\* header, starting with "Basic ", exactly when username and password are
\* both set.
C7_HeadersForwarded ==
    LET call == calls[1]
    IN  call.issued # <<>> =>
          LET request == Value(call.request)
              sent    == call.issued[1].headers
              before  == Given(request.headers, "Authorization")
              after   == IF hasHeader(sent, "Authorization")
                         THEN sent["authorization"] ELSE <<>>
          IN  /\ \A name \in DOMAIN request.headers :
                    /\ hasHeader(sent, name)
                    /\ sent[lower(name)][1] = request.headers[name]
              /\ IF ~IsNone(options.username) /\ ~IsNone(options.password)
                 THEN /\ Len(after) = Len(before) + 1
                      /\ SubSeq(after, 1, Len(before)) = before
                      /\ startswith(after[Len(after)], Basic)
                 ELSE after = before

\* C7: the outbound request carries every header of the transport request
\* unchanged, and the header "Authorization: Basic base64(username:password)"
\* is added if and only if username and password are both set.
C7_BasicAuth ==
    /\ C7_HeadersForwarded
    /\ LET call == calls[1]
       IN  (/\ call.issued # <<>>
            /\ ~IsNone(options.username) /\ ~IsNone(options.password)) =>
              LET values == call.issued[1].headers["authorization"]
              IN  values[Len(values)] =
                     Basic \o base64(Value(options.username) \o << ":" >>
                                     \o Value(options.password))

\* The host and port a proxy entry names.
Configured(entry) ==
    IF entry = ProxyEntry THEN [host |-> << "p", "x" >>, port |-> 81]
    ELSE [host |-> << "q" >>, port |-> 9]

\* C8: the request goes through ProxyAgent if and only if options.proxy has an
\* entry for the scheme of the URL, and through NewAgent otherwise; a proxied
\* request is connected to the configured proxy host and port, never to the
\* host of the URL, and its request target is the full URI, not the path.
C8_ProxyRouting ==
    LET call == calls[1]
    IN  call.issued # <<>> =>
          LET url    == Value(call.request).url
              scheme == IF startswith(url, HTTPS) THEN HTTPS ELSE HTTP
              host   == IF url = UrlA THEN << "a" >> ELSE << "b" >>
              sent   == call.issued[1]
          IN  /\ sent.agent = "ProxyAgent" <=> scheme \in DOMAIN options.proxy
              /\ sent.agent = "NewAgent" <=> scheme \notin DOMAIN options.proxy
              /\ sent.agent = "ProxyAgent" =>
                    /\ sent.peer = Configured(options.proxy[scheme])
                    /\ sent.peer.host # host
                    /\ sent.target = url
                    /\ sent.target # _parse(url).path

\* A request to an https URL sent through the proxy configured for https.
C8_Witness ==
    /\ calls[1].issued # <<>>
    /\ calls[1].issued[1].agent = "ProxyAgent"
    /\ calls[1].issued[1].peer = [host |-> << "q" >>, port |-> 9]
    /\ Value(calls[1].request).url = UrlB

\* C9: the completion Deferred of a StringResponseConsumer is fired at most
\* once over any sequence of dataReceived, connectionLost and
\* responseWithoutBody calls.
C9_FiredAtMostOnce ==
    /\ getDeferred(sc.c).fires <= 1
    /\ getDeferred(sc.c).fires = 1 <=>
          Happened({"connectionLost", "responseWithoutBody"})

\* responseWithoutBody, then connectionLost: the Deferred has fired once.
C9_Witness ==
    /\ Len(sc.events) >= 2
    /\ sc.events[1].name = "responseWithoutBody"
    /\ sc.events[2].name = "connectionLost"
    /\ getDeferred(sc.c).fires = 1

\* C10: with several calls in flight, under every interleaving of their
\* events, each call's result holds the code, headers and body chunks of its
\* own response and no chunk of another, and a call completes only by its own
\* events.
C10_CallsIsolated ==
    \A i \in Calls :
        LET call == calls[i]
        IN  /\ ~IsNone(call.consumer) =>
                  /\ Value(call.consumer).id = i
                  /\ Value(call.consumer).body = Flatten(call.received)
            /\ (Networked(call) /\ call.result.state = "ok") =>
                  /\ ~IsNone(call.reason)
                  /\ ResultBody(call) = Flatten(call.received)
                  /\ call.op = "send" =>
                        /\ Value(call.result.value).code =
                              Value(call.response).code
                        /\ Value(call.result.value).headers =
                              dict(getAllRawHeaders(Value(call.response).headers))
            /\ (Networked(call) /\ call.pc = "done") =>
                  (call.outcome \in Failures \/ ~IsNone(call.reason))

\* Two calls completed, each with its own response and its own body.
C10_Witness ==
    \E i, j \in Calls :
        /\ i # j
        /\ calls[i].result.state = "ok" /\ calls[j].result.state = "ok"
        /\ calls[i].received = << << "a" >> >>
        /\ calls[j].received = << << "b", "c" >> >>
        /\ Value(calls[i].response).code # Value(calls[j].response).code

====
